---- MODULE Spec2Model ----
(***************************************************************************)
(* A model of the PrivX secrets client of external-secrets                 *)
(* (providers/v1/privx): the SecretsClient operations GetSecret,           *)
(* GetSecretMap, GetAllSecrets, PushSecret, DeleteSecret, SecretExists,    *)
(* Validate and Close, run against a model of the PrivX vault.             *)
(*                                                                         *)
(* Byte strings and Go strings are sequences of one-character strings.     *)
(* A JSON value decoded into interface{} is a tagged record:               *)
(*   [t |-> "string", s], [t |-> "number", n], [t |-> "bool", b],          *)
(*   [t |-> "null"], [t |-> "object", m], [t |-> "array", a].              *)
(* Numbers are integers (float64 values without a fractional part).        *)
(***************************************************************************)
EXTENDS Integers, Sequences, FiniteSets, TLC

VARIABLES
    secrets,      \* the vault: name -> [Data |-> a JSON object or NoData]
    listing,      \* the order in which the vault lists its secret names
    countIsTotal, \* whether a listing response's count is the total or the page size
    config,       \* the client's configuration, set by NewClient
    pc,           \* "idle", or "paging" while a GetAllSecrets call is between pages
    find,         \* the running GetAllSecrets call: regexp, offset, results
    calls,        \* the vault calls issued by the current or last operation
    ret           \* what the last operation returned

vars == <<secrets, listing, countIsTotal, config, pc, find, calls, ret>>

(***************************************************************************)
(* Bounds of the model.                                                    *)
(***************************************************************************)
\* The largest namespace is MaxPagesFull full pages plus half a page.
MaxPagesFull == 2
\* A GetAllSecrets call is followed for at most MaxFetches page fetches.
MaxFetches == 5
\* The vault call that fails in one iteration of GetAllSecrets, if any, is
\* among the first MaxFailAt calls of the iteration.
MaxFailAt == 2

\* const limit = 100
limit == 100

(***************************************************************************)
(* Characters and strings.                                                 *)
(***************************************************************************)
\* The printable ASCII characters, in code order from 32 (space) to 126
\* (the backquote, code 96, is written #96).
Chars ==
    << " ", "!", "\"", "#", "$", "%", "&", "'", "(", ")", "*", "+", ",", "-",
       ".", "/", "0", "1", "2", "3", "4", "5", "6", "7", "8", "9", ":", ";",
       "<", "=", ">", "?", "@", "A", "B", "C", "D", "E", "F", "G", "H", "I",
       "J", "K", "L", "M", "N", "O", "P", "Q", "R", "S", "T", "U", "V", "W",
       "X", "Y", "Z", "[", "\\", "]", "^", "_", "#96", "a", "b", "c", "d", "e",
       "f", "g", "h", "i", "j", "k", "l", "m", "n", "o", "p", "q", "r", "s",
       "t", "u", "v", "w", "x", "y", "z", "{", "|", "}", "~" >>

\* The byte value of a character.
Ord(c) == 31 + CHOOSE i \in 1..Len(Chars) : Chars[i] = c

\* The character of a byte value; a byte outside printable ASCII is written #n.
Chr(n) == IF n \in 32..126 THEN Chars[n - 31] ELSE "#" \o ToString(n)

\* strings.ToLower, on ASCII.
LowerChar(c) ==
    IF \E i \in 34..59 : Chars[i] = c THEN Chars[Ord(c) - 31 + 32] ELSE c

ToLower(s) == [i \in 1..Len(s) |-> LowerChar(s[i])]

\* strings.Contains
Contains(s, sub) ==
    \E i \in 0..(Len(s) - Len(sub)) :
        \A j \in 1..Len(sub) : s[i + j] = sub[j]

\* strings.HasPrefix
HasPrefix(s, p) ==
    /\ Len(p) <= Len(s)
    /\ \A j \in 1..Len(p) : s[j] = p[j]

\* Bytewise order of two strings, the order encoding/json sorts map keys in.
RECURSIVE StrLess(_, _)
StrLess(a, b) ==
    IF a = <<>> THEN b # <<>>
    ELSE IF b = <<>> THEN FALSE
    ELSE IF a[1] = b[1] THEN StrLess(Tail(a), Tail(b))
    ELSE Ord(a[1]) < Ord(b[1])

\* The decimal digits of a natural number.
RECURSIVE Digits(_)
Digits(n) ==
    IF n < 10 THEN <<Chars[17 + n]>>
    ELSE Digits(n \div 10) \o <<Chars[17 + (n % 10)]>>

\* strconv.FormatFloat in format f with the shortest precision, of a float64 holding an integer.
FormatFloat(n) == IF n < 0 THEN <<"-">> \o Digits(-n) ELSE Digits(n)

\* strconv.FormatBool
FormatBool(b) == IF b THEN <<"t", "r", "u", "e">> ELSE <<"f", "a", "l", "s", "e">>

(***************************************************************************)
(* JSON values and encoding/json.                                          *)
(***************************************************************************)
JStr(s) == [t |-> "string", s |-> s]
JNum(n) == [t |-> "number", n |-> n]
JBool(b) == [t |-> "bool", b |-> b]
JNull == [t |-> "null"]
JObj(m) == [t |-> "object", m |-> m]
JArr(a) == [t |-> "array", a |-> a]

\* The keys of a map in the order encoding/json writes them (sorted bytewise).
RECURSIVE SortedKeys(_)
SortedKeys(ks) ==
    IF ks = {} THEN <<>>
    ELSE LET k == CHOOSE x \in ks : \A y \in ks \ {x} : StrLess(x, y)
         IN <<k>> \o SortedKeys(ks \ {k})

\* One character of a string as encoding/json writes it inside quotes.
EscapeChar(c) ==
    IF c = "\"" THEN <<"\\", "\"">>
    ELSE IF c = "\\" THEN <<"\\", "\\">>
    ELSE IF c = "<" THEN <<"\\", "u", "0", "0", "3", "c">>
    ELSE IF c = ">" THEN <<"\\", "u", "0", "0", "3", "e">>
    ELSE IF c = "&" THEN <<"\\", "u", "0", "0", "2", "6">>
    ELSE <<c>>

RECURSIVE Escape(_)
Escape(s) == IF s = <<>> THEN <<>> ELSE EscapeChar(s[1]) \o Escape(Tail(s))

Quote(s) == <<"\"">> \o Escape(s) \o <<"\"">>

\* json.Marshal of a value decoded from JSON.
RECURSIVE Marshal(_)
RECURSIVE MarshalFields(_, _)
RECURSIVE MarshalItems(_)
Marshal(v) ==
    CASE v.t = "string" -> Quote(v.s)
      [] v.t = "number" -> FormatFloat(v.n)
      [] v.t = "bool" -> FormatBool(v.b)
      [] v.t = "null" -> <<"n", "u", "l", "l">>
      [] v.t = "object" -> <<"{">> \o MarshalFields(v.m, SortedKeys(DOMAIN v.m)) \o <<"}">>
      [] v.t = "array" -> <<"[">> \o MarshalItems(v.a) \o <<"]">>

MarshalFields(m, ks) ==
    IF ks = <<>> THEN <<>>
    ELSE Quote(ks[1]) \o <<":">> \o Marshal(m[ks[1]])
         \o (IF Len(ks) > 1 THEN <<",">> ELSE <<>>)
         \o MarshalFields(m, Tail(ks))

MarshalItems(a) ==
    IF a = <<>> THEN <<>>
    ELSE Marshal(a[1]) \o (IF Len(a) > 1 THEN <<",">> ELSE <<>>) \o MarshalItems(Tail(a))

\* anyToBytes with the string case left out: a string is marshalled, quoted.
anyToBytesQuoted(v) == Marshal(v)

\* anyToBytes: a string as its own bytes, a bool and a float64 through strconv,
\* anything else (null, object, array) through json.Marshal.  The []byte and
\* json.Number cases cannot arise for a value decoded into interface{}.
anyToBytes(v) ==
    CASE v.t = "string" -> v.s
      [] v.t = "bool" -> FormatBool(v.b)
      [] v.t = "number" -> FormatFloat(v.n)
      [] OTHER -> Marshal(v)

(***************************************************************************)
(* Errors: the sentinel an error wraps (errors.Is) and its message.        *)
(***************************************************************************)
NilErr == [sentinel |-> "nil", msg |-> <<>>]

ErrNoName == [sentinel |-> "ErrNoName", msg |-> <<"N", "o", " ", "n", "a", "m", "e", " ", "p", "r", "o", "v", "i", "d", "e", "d", " ", "f", "o", "r", " ", "s", "e", "c", "r", "e", "t">>]
ErrUnsupportedDecodingStrategy ==
    [sentinel |-> "ErrUnsupportedDecodingStrategy", msg |-> <<"u", "n", "s", "u", "p", "p", "o", "r", "t", "e", "d", " ", "d", "e", "c", "o", "d", "i", "n", "g", " ", "s", "t", "r", "a", "t", "e", "g", "y">>]
ErrSecretDataMissing ==
    [sentinel |-> "ErrSecretDataMissing", msg |-> <<"s", "e", "c", "r", "e", "t", " ", "d", "a", "t", "a", " ", "m", "i", "s", "s", "i", "n", "g">>]
ErrPropertyNotFound ==
    [sentinel |-> "ErrPropertyNotFound", msg |-> <<"p", "r", "o", "p", "e", "r", "t", "y", " ", "n", "o", "t", " ", "f", "o", "u", "n", "d", " ", "i", "n", " ", "s", "e", "c", "r", "e", "t">>]
ErrNotImplemented == [sentinel |-> "ErrNotImplemented", msg |-> <<"n", "o", "t", " ", "i", "m", "p", "l", "e", "m", "e", "n", "t", "e", "d">>]

\* fmt.Errorf(prefix + "%w" + suffix, err)
Wrap(prefix, err, suffix) ==
    [sentinel |-> err.sentinel, msg |-> prefix \o err.msg \o suffix]

\* What the vault answers for a secret it does not hold, and a failure that
\* has nothing to do with absence.
VaultNotFound == [sentinel |-> "vault", msg |-> <<"e", "r", "r", "o", "r", ":", " ", "N", "O", "T", "_", "F", "O", "U", "N", "D", ",", " ", "m", "e", "s", "s", "a", "g", "e", ":", " ", "S", "e", "c", "r", "e", "t", " ", "n", "o", "t", " ", "f", "o", "u", "n", "d">>]
VaultUnreachable == [sentinel |-> "vault", msg |-> <<"d", "i", "a", "l", " ", "t", "c", "p", ":", " ", "c", "o", "n", "n", "e", "c", "t", "i", "o", "n", " ", "r", "e", "f", "u", "s", "e", "d">>]

\* isNotFound with the lowering of the message left out.
isNotFoundCaseSensitive(err) ==
    Contains(err.msg, <<"s", "e", "c", "r", "e", "t", " ", "n", "o", "t", " ", "f", "o", "u", "n", "d">>)

\* isNotFound: the lowercased message contains "secret not found".  The caller
\* must not pass a nil error: err.Error() on nil is a nil dereference.
isNotFound(err) ==
    Contains(ToLower(err.msg), <<"s", "e", "c", "r", "e", "t", " ", "n", "o", "t", " ", "f", "o", "u", "n", "d">>)

(***************************************************************************)
(* encoding/base64 and the decoding strategies.                           *)
(***************************************************************************)
\* base64.StdEncoding and base64.URLEncoding: the alphabets, both padded with =.
StdAlphabet == SubSeq(Chars, 34, 59) \o SubSeq(Chars, 66, 91) \o SubSeq(Chars, 17, 26) \o <<"+", "/">>
URLAlphabet == SubSeq(Chars, 34, 59) \o SubSeq(Chars, 66, 91) \o SubSeq(Chars, 17, 26) \o <<"-", "_">>

InAlphabet(alpha, c) == \E i \in 1..64 : alpha[i] = c
SixBits(alpha, c) == (CHOOSE i \in 1..64 : alpha[i] = c) - 1

\* How many of the first four characters of s are characters of the alphabet,
\* counted up to the first one that is not.
RECURSIVE LeadingIn(_, _, _)
LeadingIn(alpha, s, max) ==
    IF max = 0 \/ s = <<>> \/ ~InAlphabet(alpha, s[1]) THEN 0
    ELSE 1 + LeadingIn(alpha, Tail(s), max - 1)

CorruptInput == [sentinel |-> "base64.CorruptInputError", msg |-> <<"i", "l", "l", "e", "g", "a", "l", " ", "b", "a", "s", "e", "6", "4", " ", "d", "a", "t", "a">>]

\* Encoding.DecodeString of a padded, non-strict encoding, one quantum of four
\* characters at a time.  Input without \r and \n, which the decoder skips.
RECURSIVE DecodeString(_, _)
DecodeString(alpha, s) ==
    IF s = <<>> THEN [val |-> <<>>, err |-> NilErr]
    ELSE
    LET n == LeadingIn(alpha, s, 4)
        v(i) == SixBits(alpha, s[i])
        b1 == Chr(v(1) * 4 + (v(2) \div 16))
        b2 == Chr((v(2) % 16) * 16 + (v(3) \div 4))
        b3 == Chr((v(3) % 4) * 64 + v(4))
        bad == [val |-> <<>>, err |-> CorruptInput]
    IN  IF n = 4 THEN
            LET rest == DecodeString(alpha, SubSeq(s, 5, Len(s)))
            IN  IF rest.err # NilErr THEN bad
                ELSE [val |-> <<b1, b2, b3>> \o rest.val, err |-> NilErr]
        ELSE IF Len(s) = n THEN bad              \* the input ends inside a quantum
        ELSE IF s[n + 1] # "=" THEN bad          \* a character outside the alphabet
        ELSE IF n < 2 THEN bad                   \* incorrect padding
        ELSE IF n = 2 THEN
            IF Len(s) = 4 /\ s[4] = "=" THEN [val |-> <<b1>>, err |-> NilErr]
            ELSE bad                             \* not enough padding, or trailing garbage
        ELSE
            IF Len(s) = 4 THEN [val |-> <<b1, b2>>, err |-> NilErr]
            ELSE bad                             \* trailing garbage

\* Encoding.EncodeToString of base64.StdEncoding.
RECURSIVE EncodeToString(_)
EncodeToString(b) ==
    LET o(i) == Ord(b[i])
        c(k) == StdAlphabet[k + 1]
    IN  IF b = <<>> THEN <<>>
        ELSE IF Len(b) = 1 THEN
            <<c(o(1) \div 4), c((o(1) % 4) * 16), "=", "=">>
        ELSE IF Len(b) = 2 THEN
            <<c(o(1) \div 4), c((o(1) % 4) * 16 + (o(2) \div 16)), c((o(2) % 16) * 4), "=">>
        ELSE
            <<c(o(1) \div 4), c((o(1) % 4) * 16 + (o(2) \div 16)),
              c((o(2) % 16) * 4 + (o(3) \div 64)), c(o(3) % 64)>>
            \o EncodeToString(SubSeq(b, 4, Len(b)))

\* The values of esv1.ExternalSecretDecodingStrategy.
DecodeAuto == <<"A", "u", "t", "o">>
DecodeBase64 == <<"B", "a", "s", "e", "6", "4">>
DecodeBase64URL == <<"B", "a", "s", "e", "6", "4", "U", "R", "L">>
DecodeNone == <<"N", "o", "n", "e">>

\* decode with the Auto strategy trying the URL alphabet first.
decodeURLFirst(value, strategy) ==
    IF strategy = DecodeBase64 THEN DecodeString(StdAlphabet, value)
    ELSE IF strategy = DecodeBase64URL THEN DecodeString(URLAlphabet, value)
    ELSE IF strategy = DecodeNone \/ strategy = <<>> THEN [val |-> value, err |-> NilErr]
    ELSE IF strategy = DecodeAuto THEN
        IF DecodeString(URLAlphabet, value).err = NilErr THEN DecodeString(URLAlphabet, value)
        ELSE IF DecodeString(StdAlphabet, value).err = NilErr THEN DecodeString(StdAlphabet, value)
        ELSE [val |-> value, err |-> NilErr]
    ELSE [val |-> <<>>, err |-> Wrap(<<>>, ErrUnsupportedDecodingStrategy, <<":", " ">> \o strategy)]

\* decode with an Auto strategy that fails when neither alphabet decodes.
decodeAutoStrict(value, strategy) ==
    IF strategy = DecodeBase64 THEN DecodeString(StdAlphabet, value)
    ELSE IF strategy = DecodeBase64URL THEN DecodeString(URLAlphabet, value)
    ELSE IF strategy = DecodeNone \/ strategy = <<>> THEN [val |-> value, err |-> NilErr]
    ELSE IF strategy = DecodeAuto THEN
        IF DecodeString(StdAlphabet, value).err = NilErr THEN DecodeString(StdAlphabet, value)
        ELSE DecodeString(URLAlphabet, value)
    ELSE [val |-> <<>>, err |-> Wrap(<<>>, ErrUnsupportedDecodingStrategy, <<":", " ">> \o strategy)]

\* decode: the value decoded according to the decoding strategy.
decode(value, strategy) ==
    IF strategy = DecodeBase64 THEN DecodeString(StdAlphabet, value)
    ELSE IF strategy = DecodeBase64URL THEN DecodeString(URLAlphabet, value)
    ELSE IF strategy = DecodeNone \/ strategy = <<>> THEN [val |-> value, err |-> NilErr]
    ELSE IF strategy = DecodeAuto THEN
        IF DecodeString(StdAlphabet, value).err = NilErr THEN DecodeString(StdAlphabet, value)
        ELSE IF DecodeString(URLAlphabet, value).err = NilErr THEN DecodeString(URLAlphabet, value)
        ELSE [val |-> value, err |-> NilErr]
    ELSE [val |-> <<>>, err |-> Wrap(<<>>, ErrUnsupportedDecodingStrategy, <<":", " ">> \o strategy)]

(***************************************************************************)
(* regexp: the patterns the model uses are a literal, optionally anchored  *)
(* with a leading ^, and the pattern "(", which does not compile.          *)
(***************************************************************************)
\* regexp.Compile: the compiled pattern, or the parse error.
Compile(expr) ==
    IF \E i \in 1..Len(expr) : expr[i] = "("
    THEN [err |-> [sentinel |-> "regexp.Error",
                   msg |-> <<"e", "r", "r", "o", "r", " ", "p", "a", "r", "s", "i", "n", "g", " ", "r", "e", "g", "e", "x", "p", ":", " ", "m", "i", "s", "s", "i", "n", "g", " ", "c", "l", "o", "s", "i", "n", "g", " ", ")", ":", " ">> \o <<"#96">> \o expr \o <<"#96">>],
          anchored |-> FALSE, lit |-> <<>>]
    ELSE IF expr # <<>> /\ expr[1] = "^"
    THEN [err |-> NilErr, anchored |-> TRUE, lit |-> Tail(expr)]
    ELSE [err |-> NilErr, anchored |-> FALSE, lit |-> expr]

\* Regexp.MatchString on every name, anchored or not.
MatchStringAny(re, s) == TRUE

\* Regexp.MatchString: whether the pattern matches somewhere in s.
MatchString(re, s) ==
    IF re.anchored THEN HasPrefix(s, re.lit) ELSE Contains(s, re.lit)

(***************************************************************************)
(* The vault (PrivX), as the client sees it through the SDK.               *)
(***************************************************************************)
\* *secret.Data: the document, and secret.Data == nil.
Data(m) == [isNil |-> FALSE, m |-> m]
NoData == [isNil |-> TRUE, m |-> <<>>]

\* The key Validate probes for.
ProbeKey == <<"2", "F", "0", "v", "Z", "q", "C", "e", "0", "Z", "3", "X", "U", "5">>

\* The name of the i-th secret of the initial namespace: foo-i for one index
\* in seven, bar-i for the others.
NameOf(i) == (IF i % 7 = 1 THEN <<"f", "o", "o", "-">> ELSE <<"b", "a", "r", "-">>) \o Digits(i)

\* Documents of several shapes, held by the first secrets of the namespace.
SampleDocs ==
    << (<<"a">> :> JNum(1)
        @@ <<"b">> :> JObj(<<"c">> :> JStr(<<"x">>)
                         @@ <<"d">> :> JObj(<<"e">> :> JBool(TRUE))
                         @@ <<"f">> :> JArr(<<JNum(1), JStr(<<"y">>)>>)
                         @@ <<"g">> :> JNull)
        @@ <<"n">> :> JNull
        @@ <<"s">> :> JStr(<<"a", "G", "k", "=">>)
        @@ <<"t">> :> JBool(FALSE)
        @@ <<"l">> :> JArr(<<JNum(-2), JObj(<<"k">> :> JStr(<<"\"">>))>>)
        @@ <<"u">> :> JStr(<<"f", "n", "5", "-">>)),
       (<<"a">> :> JNum(2)),
       <<>> >>

\* The document of the i-th secret of the initial namespace.
DocOf(i) ==
    IF i <= Len(SampleDocs) THEN SampleDocs[i] ELSE (<<"a">> :> JNum(i))

\* The sizes of the initial namespace: empty, just short of a page, a full
\* page, full pages only, and full pages followed by half a page.
Sizes ==
    {0, limit - 1, limit, MaxPagesFull * limit,
     MaxPagesFull * limit + (limit \div 2)}

\* vault.GetSecret(name): the secret, or the vault's error; failure is a
\* failure of the call that has nothing to do with the secret.
VaultGetSecret(name, failure) ==
    IF failure # NilErr THEN [secret |-> [Data |-> NoData], err |-> failure]
    ELSE IF name \notin DOMAIN secrets THEN [secret |-> [Data |-> NoData], err |-> VaultNotFound]
    ELSE [secret |-> secrets[name], err |-> NilErr]

Min(a, b) == IF a < b THEN a ELSE b

\* vault.GetSecrets(filters.Limit(lim), filters.Offset(offset)): the names at
\* positions offset .. offset+lim-1 of the listing, and the count field of the
\* response, which holds either the number of items of this page or the size
\* of the whole result set: the client reads it without knowing which.
VaultGetSecrets(lim, offset, failure) ==
    LET items == SubSeq(listing, offset + 1, Min(offset + lim, Len(listing)))
    IN  IF failure # NilErr THEN [Items |-> <<>>, Count |-> 0, err |-> failure]
        ELSE [Items |-> items,
              Count |-> IF countIsTotal THEN Len(listing) ELSE Len(items),
              err |-> NilErr]

\* The failures a vault call can end in, NilErr being none.
Failures == {NilErr, VaultUnreachable}

(***************************************************************************)
(* The operations of SecretsClient, as functions of what the vault answers.*)
(***************************************************************************)
\* A remote reference: esv1.ExternalSecretDataRemoteRef.
Ref(key, property, strategy) ==
    [Key |-> key, Property |-> property, DecodingStrategy |-> strategy]

Result(val, err) == [val |-> val, err |-> err]

\* GetSecret that also decodes the selected value by ref.DecodingStrategy.
GetSecretDecoding(resp, ref) ==
    IF resp.err # NilErr THEN Result(<<>>, resp.err)
    ELSE IF resp.secret.Data.isNil
    THEN Result(<<>>, Wrap(<<>>, ErrSecretDataMissing, <<":", " ">> \o ref.Key))
    ELSE IF ref.Property = <<>> THEN Result(Marshal(JObj(resp.secret.Data.m)), NilErr)
    ELSE IF ref.Property \notin DOMAIN resp.secret.Data.m
            \/ resp.secret.Data.m[ref.Property].t = "null"
    THEN Result(<<>>, Wrap(<<>>, ErrPropertyNotFound,
                           <<":", " ">> \o ref.Key \o <<"/">> \o ref.Property))
    ELSE decode(anyToBytes(resp.secret.Data.m[ref.Property]), ref.DecodingStrategy)

\* GetSecret with the v == nil test left out: a null field is coerced.
GetSecretNullCoerced(resp, ref) ==
    IF resp.err # NilErr THEN Result(<<>>, resp.err)
    ELSE IF resp.secret.Data.isNil
    THEN Result(<<>>, Wrap(<<>>, ErrSecretDataMissing, <<":", " ">> \o ref.Key))
    ELSE IF ref.Property = <<>> THEN Result(Marshal(JObj(resp.secret.Data.m)), NilErr)
    ELSE IF ref.Property \notin DOMAIN resp.secret.Data.m
    THEN Result(<<>>, Wrap(<<>>, ErrPropertyNotFound,
                           <<":", " ">> \o ref.Key \o <<"/">> \o ref.Property))
    ELSE Result(anyToBytes(resp.secret.Data.m[ref.Property]), NilErr)

\* GetSecret, given the answer resp of c.vault.GetSecret(ref.Key): the whole
\* document as JSON when no property is asked for, else the property's value
\* through anyToBytes.  ref.DecodingStrategy is not read.
GetSecretOf(resp, ref) ==
    IF resp.err # NilErr THEN Result(<<>>, resp.err)
    ELSE IF resp.secret.Data.isNil
    THEN Result(<<>>, Wrap(<<>>, ErrSecretDataMissing, <<":", " ">> \o ref.Key))
    ELSE IF ref.Property = <<>> THEN Result(Marshal(JObj(resp.secret.Data.m)), NilErr)
    ELSE IF ref.Property \notin DOMAIN resp.secret.Data.m
            \/ resp.secret.Data.m[ref.Property].t = "null"
    THEN Result(<<>>, Wrap(<<>>, ErrPropertyNotFound,
                           <<":", " ">> \o ref.Key \o <<"/">> \o ref.Property))
    ELSE Result(anyToBytes(resp.secret.Data.m[ref.Property]), NilErr)

\* A map with every value through anyToBytes.
Coerced(m) == [k \in DOMAIN m |-> anyToBytes(m[k])]

\* The fields of an object with the fields of its nested objects pulled up
\* under their own names, instead of the nested objects themselves.
Flattened(m) ==
    LET objs == {k \in DOMAIN m : m[k].t = "object"}
        inner == UNION {DOMAIN m[k].m : k \in objs}
    IN  [k \in (DOMAIN m \ objs) |-> anyToBytes(m[k])]
        @@ [j \in inner |->
               LET k == CHOOSE k \in objs : j \in DOMAIN m[k].m
               IN  anyToBytes(m[k].m[j])]

\* GetSecretMap that flattens a selected object one level further.
GetSecretMapRecursive(resp, ref) ==
    IF resp.err # NilErr THEN Result(<<>>, resp.err)
    ELSE IF resp.secret.Data.isNil THEN Result(<<>>, ErrSecretDataMissing)
    ELSE IF ref.Property = <<>> THEN Result(Coerced(resp.secret.Data.m), NilErr)
    ELSE IF ref.Property \notin DOMAIN resp.secret.Data.m
            \/ resp.secret.Data.m[ref.Property].t = "null"
    THEN Result(<<>>, ErrPropertyNotFound)
    ELSE IF resp.secret.Data.m[ref.Property].t = "object"
    THEN Result(Flattened(resp.secret.Data.m[ref.Property].m), NilErr)
    ELSE Result(ref.Property :> anyToBytes(resp.secret.Data.m[ref.Property]), NilErr)

\* GetSecretMap, given the answer resp of c.vault.GetSecret(ref.Key).
GetSecretMapOf(resp, ref) ==
    IF resp.err # NilErr THEN Result(<<>>, resp.err)
    ELSE IF resp.secret.Data.isNil THEN Result(<<>>, ErrSecretDataMissing)
    ELSE IF ref.Property = <<>> THEN Result(Coerced(resp.secret.Data.m), NilErr)
    ELSE IF ref.Property \notin DOMAIN resp.secret.Data.m
            \/ resp.secret.Data.m[ref.Property].t = "null"
    THEN Result(<<>>, ErrPropertyNotFound)
    ELSE IF resp.secret.Data.m[ref.Property].t = "object"
    THEN Result(Coerced(resp.secret.Data.m[ref.Property].m), NilErr)
    ELSE Result(ref.Property :> anyToBytes(resp.secret.Data.m[ref.Property]), NilErr)

\* DeleteSecret that returns every error of the vault.
DeleteSecretStrict(vaultErr) == vaultErr

\* DeleteSecret, given the error of c.vault.DeleteSecret: nil and not-found
\* are success, any other error is returned as it is.
DeleteSecretOf(vaultErr) ==
    IF vaultErr = NilErr THEN NilErr
    ELSE IF isNotFound(vaultErr) THEN NilErr
    ELSE vaultErr

\* SecretExists that takes any error of GetSecret for absence.
SecretExistsLenient(got) ==
    IF got.err = NilErr THEN Result(TRUE, NilErr) ELSE Result(FALSE, NilErr)

\* SecretExists, given the result of c.GetSecret for the key.
SecretExistsOf(got) ==
    IF got.err = NilErr THEN Result(TRUE, NilErr)
    ELSE IF isNotFound(got.err) THEN Result(FALSE, NilErr)
    ELSE Result(FALSE, got.err)

\* Validate, given the result of c.GetSecret for the probe key.  isNotFound
\* is called without a test for nil: on a nil error err.Error() panics.
ValidateOf(got) ==
    IF got.err = NilErr THEN [val |-> "", err |-> NilErr, panic |-> TRUE]
    ELSE IF isNotFound(got.err)
    THEN [val |-> "ValidationResultReady", err |-> NilErr, panic |-> FALSE]
    ELSE [val |-> "ValidationResultError", err |-> got.err, panic |-> FALSE]

\* packRoles copying each role ID into the display name as well.
packRolesNamed(roleIDs) == [i \in 1..Len(roleIDs) |-> [ID |-> roleIDs[i], Name |-> roleIDs[i]]]

\* packRoles: a RoleHandle with an empty name for each role ID, in order.
packRoles(roleIDs) == [i \in 1..Len(roleIDs) |-> [ID |-> roleIDs[i], Name |-> <<>>]]

\* A Go []byte, and the nil slice a map lookup gives for a missing key.
Bytes(b) == [isNil |-> FALSE, b |-> b]
NilBytes == [isNil |-> TRUE, b |-> <<>>]

\* secret.Data[secretKey]
Lookup(data, secretKey) == IF secretKey \in DOMAIN data THEN Bytes(data[secretKey]) ELSE NilBytes

\* A request that carries the fields of the document already stored under
\* the name along with the new one.
SecretRequestMerging(name, secretKey, secretValue) ==
    LET old == IF name \in DOMAIN secrets /\ ~secrets[name].Data.isNil
               THEN secrets[name].Data.m ELSE <<>>
    IN  [Name |-> name,
         ReadRoles |-> packRoles(config.defaultReadRoles),
         WriteRoles |-> packRoles(config.defaultWriteRoles),
         Data |-> (secretKey :> secretValue) @@ [k \in DOMAIN old |-> Bytes(anyToBytes(old[k]))]]

\* The vault.SecretRequest that PushSecret builds.
SecretRequest(name, secretKey, secretValue) ==
    [Name |-> name,
     ReadRoles |-> packRoles(config.defaultReadRoles),
     WriteRoles |-> packRoles(config.defaultWriteRoles),
     Data |-> (secretKey :> secretValue)]

\* The document the vault holds after a request: encoding/json writes a
\* []byte field as a base64 string and a nil []byte as null.
StoredDocument(request) ==
    [k \in DOMAIN request.Data |->
        IF request.Data[k].isNil THEN JNull
        ELSE JStr(EncodeToString(request.Data[k].b))]

\* PushSecret preferring the secret's own name to the remote key.
PushNameSecretFirst(remoteKey, secretName) == IF secretName = <<>> THEN remoteKey ELSE secretName

\* The name PushSecret writes to: the remote key, else the secret's name.
PushName(remoteKey, secretName) == IF remoteKey = <<>> THEN secretName ELSE remoteKey

(***************************************************************************)
(* GetAllSecrets.                                                          *)
(***************************************************************************)
\* esv1.ExternalSecretFind: Path and Tags set or nil, the conversion
\* strategy, and Name, nil or holding a regular expression.
FindName(expr) == [isNil |-> FALSE, RegExp |-> expr]
NoFindName == [isNil |-> TRUE, RegExp |-> <<>>]
ConversionDefault == <<"D", "e", "f", "a", "u", "l", "t">>
ConversionUnicode == <<"U", "n", "i", "c", "o", "d", "e">>

NotImplementedFor(param) ==
    Wrap(<<"p", "a", "r", "a", "m", "e", "t", "e", "r", " ", "\"">> \o param \o <<"\"", ":", " ">>, ErrNotImplemented, <<>>)

SearchString(ref) == IF ref.Name.isNil THEN <<>> ELSE ref.Name.RegExp

\* The argument checks of GetAllSecrets with the pattern compiled first.
FindCheckRegexpFirst(ref) ==
    IF Compile(SearchString(ref)).err # NilErr
    THEN Wrap(<<"i", "n", "v", "a", "l", "i", "d", " ", "r", "e", "g", "e", "x", " ", "\"">> \o SearchString(ref) \o <<"\"", ":", " ">>,
              Compile(SearchString(ref)).err, <<>>)
    ELSE IF ref.Path THEN NotImplementedFor(<<"r", "e", "f", ".", "P", "a", "t", "h">>)
    ELSE IF ref.Tags THEN NotImplementedFor(<<"r", "e", "f", ".", "T", "a", "g", "s">>)
    ELSE IF ref.ConversionStrategy # ConversionDefault
    THEN NotImplementedFor(<<"r", "e", "f", ".", "C", "o", "n", "v", "e", "r", "s", "i", "o", "n", "S", "t", "r", "a", "t", "e", "g", "y">>)
    ELSE NilErr

\* The argument checks of GetAllSecrets, before the loop: the error it
\* returns, or NilErr.
FindCheck(ref) ==
    IF ref.Path THEN NotImplementedFor(<<"r", "e", "f", ".", "P", "a", "t", "h">>)
    ELSE IF ref.Tags THEN NotImplementedFor(<<"r", "e", "f", ".", "T", "a", "g", "s">>)
    ELSE IF ref.ConversionStrategy # ConversionDefault
    THEN NotImplementedFor(<<"r", "e", "f", ".", "C", "o", "n", "v", "e", "r", "s", "i", "o", "n", "S", "t", "r", "a", "t", "e", "g", "y">>)
    ELSE IF Compile(SearchString(ref)).err # NilErr
    THEN Wrap(<<"i", "n", "v", "a", "l", "i", "d", " ", "r", "e", "g", "e", "x", " ", "\"">> \o SearchString(ref) \o <<"\"", ":", " ">>,
              Compile(SearchString(ref)).err, <<>>)
    ELSE NilErr

\* A read of one secret sent to the vault as a request to delete it.
GetSecretCallDeleting(name) == [op |-> "DeleteSecret", name |-> name]

GetSecretsCall(offset, page) ==
    [op |-> "GetSecrets", limit |-> limit, offset |-> offset, n |-> Len(page.Items)]
GetSecretCall(name) == [op |-> "GetSecret", name |-> name]

\* The loop over secrets.Items of one page: for each name the pattern
\* matches, in order, fetch the secret and put its document, as JSON, into
\* results; the first fetch that fails, or that finds no data payload, ends
\* the loop with what was gathered before it.  made counts the vault calls
\* of this iteration so far; the call number failAt fails with failure.
ScanItems(items, re, results, made, failAt, failure) ==
    LET matched == SelectSeq(items, LAMBDA name : MatchString(re, name))
        secretDetails(j) ==
            VaultGetSecret(matched[j], IF made + j = failAt THEN failure ELSE NilErr)
        stops == {j \in 1..Len(matched) :
                     secretDetails(j).err # NilErr \/ secretDetails(j).secret.Data.isNil}
        stop == IF stops = {} THEN 0 ELSE CHOOSE j \in stops : \A k \in stops : j <= k
        stored == IF stop = 0 THEN Len(matched) ELSE stop - 1
    IN  [results |->
            [name \in {matched[j] : j \in 1..stored} |->
                Marshal(JObj(secrets[name].Data.m))] @@ results,
         err |-> IF stop = 0 THEN NilErr
                 ELSE IF secretDetails(stop).err # NilErr THEN secretDetails(stop).err
                 ELSE ErrSecretDataMissing,
         calls |-> [j \in 1..(IF stop = 0 THEN Len(matched) ELSE stop) |->
                       GetSecretCall(matched[j])]]

\* The test that ends the loop after a page, on the number of items.
LastPageByItems(page) == Len(page.Items) < limit

\* The test that ends the loop after a page: secrets.Count < limit.
LastPage(page) == page.Count < limit

\* The test that ends the loop before a page is looked at: secrets.Count == 0.
EmptyPage(page) == page.Count = 0

\* One iteration of the loop of GetAllSecrets at the given offset: the
\* results so far, the error that ends the call, whether the loop goes on,
\* and the vault calls made.
Iteration(re, offset, results, failAt, failure) ==
    LET page == VaultGetSecrets(limit, offset, IF failAt = 1 THEN failure ELSE NilErr)
        list == <<GetSecretsCall(offset, page)>>
        scan == ScanItems(page.Items, re, results, 1, failAt, failure)
    IN  IF page.err # NilErr
        THEN [results |-> results, err |-> page.err, more |-> FALSE, calls |-> list]
        ELSE IF EmptyPage(page)
        THEN [results |-> results, err |-> NilErr, more |-> FALSE, calls |-> list]
        ELSE IF scan.err # NilErr
        THEN [results |-> scan.results, err |-> scan.err, more |-> FALSE,
              calls |-> list \o scan.calls]
        ELSE [results |-> scan.results, err |-> NilErr, more |-> ~LastPage(page),
              calls |-> list \o scan.calls]

(***************************************************************************)
(* The inputs the operations are called with.                              *)
(***************************************************************************)
Keys == {NameOf(1), NameOf(3), NameOf(4), ProbeKey}
\* The names DeleteSecret is called with: the two that PushSecret writes and
\* one that the vault never holds.
DeleteKeys == {ProbeKey, <<"n", "e", "w">>, <<"g", "o", "n", "e">>}
Properties == {<<>>, <<"a">>, <<"b">>, <<"n">>, <<"s">>, <<"t">>, <<"l">>, <<"u">>, <<"z">>,
               <<"k", "1">>}
Strategies == {<<>>, DecodeBase64, DecodeAuto, <<"H", "e", "x">>}
\* A call whose vault request fails returns before it reads the property or
\* the strategy: such calls are made with the empty ones only.
Selectors(failure) == IF failure = NilErr THEN Properties ELSE {<<>>}
StrategiesOn(failure) == IF failure = NilErr THEN Strategies ELSE {<<>>}
Patterns == {<<"^", "f", "o", "o">>, <<"a", "r", "-", "1">>, <<"(">>}
FindRefs ==
    [Path : BOOLEAN, Tags : BOOLEAN,
     ConversionStrategy : {ConversionDefault, ConversionUnicode},
     Name : {NoFindName} \cup {FindName(p) : p \in Patterns}]
RemoteKeys == {<<>>, ProbeKey}
SecretNames == {<<>>, <<"n", "e", "w">>}
SecretKeys == {<<"k", "1">>, <<"k", "2">>}
\* secret.Data of the Kubernetes secret that is pushed.
SourceData == {(<<"k", "1">> :> <<"h", "i">>)}
Configs ==
    {[defaultReadRoles |-> <<<<"r", "1">>, <<"r", "2">>>>,
      defaultWriteRoles |-> <<<<"w", "1">>>>, namespace |-> <<"e", "s", "o">>]}

\* No GetAllSecrets call is running.  touched holds the names that other
\* calls have written or deleted since the running call began.
NoFind == [searchString |-> <<>>, offset |-> 0, results |-> <<>>, touched |-> {}]
NoRet == [op |-> "none"]

(***************************************************************************)
(* The initial state: a vault holding a namespace of one of the sizes, the *)
(* secret at position nilAt (if any) without a data payload, and a client  *)
(* just made by NewClient.                                                 *)
(***************************************************************************)
InitialSecrets(size, nilAt) ==
    [name \in {NameOf(i) : i \in 1..size} |->
        LET i == CHOOSE i \in 1..size : NameOf(i) = name
        IN  [Data |-> IF i = nilAt THEN NoData ELSE Data(DocOf(i))]]

Init ==
    /\ \E size \in Sizes :
       \E nilAt \in {0} \cup ({4} \cap 1..size) :
          /\ listing = [i \in 1..size |-> NameOf(i)]
          /\ secrets = InitialSecrets(size, nilAt)
    /\ countIsTotal \in BOOLEAN
    /\ config \in Configs
    /\ pc = "idle"
    /\ find = NoFind
    /\ calls = <<>>
    /\ ret = NoRet

(***************************************************************************)
(* The operations.                                                         *)
(***************************************************************************)
GetSecret ==
    /\ pc = "idle"
    /\ \E key \in Keys, failure \in Failures :
       \E property \in Selectors(failure), strategy \in StrategiesOn(failure) :
          LET ref == Ref(key, property, strategy)
              got == GetSecretOf(VaultGetSecret(key, failure), ref)
          IN  ret' = [op |-> "GetSecret", ref |-> ref, val |-> got.val, err |-> got.err,
                      failure |-> failure]
              /\ calls' = <<GetSecretCall(key)>>
    /\ pc' = "done"
    /\ UNCHANGED <<secrets, listing, countIsTotal, config, find>>

GetSecretMap ==
    /\ pc = "idle"
    /\ \E key \in Keys, failure \in Failures :
       \E property \in Selectors(failure), strategy \in {<<>>, DecodeBase64} :
          LET ref == Ref(key, property, strategy)
              got == GetSecretMapOf(VaultGetSecret(key, failure), ref)
          IN  ret' = [op |-> "GetSecretMap", ref |-> ref, out |-> got.val, err |-> got.err,
                      failure |-> failure]
              /\ calls' = <<GetSecretCall(key)>>
    /\ pc' = "done"
    /\ UNCHANGED <<secrets, listing, countIsTotal, config, find>>

\* vault.CreateSecret(&request): the document is created, or replaces the
\* one of that name, unless the call fails.  The result keeps the document
\* the request replaced.
PushSecret ==
    /\ pc = "idle"
    /\ \E remoteKey \in RemoteKeys, secretName \in SecretNames,
          secretKey \in SecretKeys, data \in SourceData, failure \in Failures :
          LET name == PushName(remoteKey, secretName)
              request == SecretRequest(name, secretKey, Lookup(data, secretKey))
              args == [remoteKey |-> remoteKey, secretName |-> secretName,
                       secretKey |-> secretKey, data |-> data]
          IN  IF name = <<>>
              THEN /\ ret' = [op |-> "PushSecret", args |-> args, err |-> ErrNoName,
                              failure |-> NilErr, replaced |-> NoData]
                   /\ calls' = <<>>
                   /\ UNCHANGED <<secrets, listing>>
              ELSE /\ ret' = [op |-> "PushSecret", args |-> args, err |-> failure,
                              failure |-> failure,
                              replaced |-> IF name \in DOMAIN secrets THEN secrets[name].Data
                                           ELSE NoData]
                   /\ calls' = <<[op |-> "CreateSecret", request |-> request]>>
                   /\ IF failure # NilErr THEN UNCHANGED <<secrets, listing>>
                      ELSE /\ secrets' = (name :> [Data |-> Data(StoredDocument(request))])
                                         @@ secrets
                           /\ listing' = IF name \in DOMAIN secrets THEN listing
                                         ELSE Append(listing, name)
    /\ pc' = "done"
    /\ UNCHANGED <<countIsTotal, config, find>>

\* vault.DeleteSecret(name): the secret is removed; the vault answers
\* not-found for a name it does not hold.
DeleteSecret ==
    /\ pc = "idle"
    /\ \E remoteKey \in DeleteKeys, failure \in Failures :
          LET vaultErr == IF failure # NilErr THEN failure
                          ELSE IF remoteKey \notin DOMAIN secrets THEN VaultNotFound
                          ELSE NilErr
          IN  /\ ret' = [op |-> "DeleteSecret", remoteKey |-> remoteKey,
                         err |-> DeleteSecretOf(vaultErr), vaultErr |-> vaultErr,
                         present |-> remoteKey \in DOMAIN secrets]
              /\ calls' = <<[op |-> "DeleteSecret", name |-> remoteKey]>>
              /\ IF vaultErr # NilErr THEN UNCHANGED <<secrets, listing>>
                 ELSE /\ secrets' = [n \in DOMAIN secrets \ {remoteKey} |-> secrets[n]]
                      /\ listing' = SelectSeq(listing, LAMBDA n : n # remoteKey)
    /\ pc' = "done"
    /\ UNCHANGED <<countIsTotal, config, find>>

SecretExists ==
    /\ pc = "idle"
    /\ \E remoteKey \in Keys, failure \in Failures :
          LET remoteRef == Ref(remoteKey, <<>>, <<>>)
              got == SecretExistsOf(GetSecretOf(VaultGetSecret(remoteKey, failure), remoteRef))
          IN  ret' = [op |-> "SecretExists", remoteKey |-> remoteKey, exists |-> got.val,
                      err |-> got.err, failure |-> failure]
              /\ calls' = <<GetSecretCall(remoteKey)>>
    /\ pc' = "done"
    /\ UNCHANGED <<secrets, listing, countIsTotal, config, find>>

Validate ==
    /\ pc = "idle"
    /\ \E failure \in Failures :
          LET probe == GetSecretOf(VaultGetSecret(ProbeKey, failure), Ref(ProbeKey, <<>>, <<>>))
              got == ValidateOf(probe)
          IN  ret' = [op |-> "Validate", result |-> got.val, err |-> got.err,
                      panic |-> got.panic, probe |-> probe]
              /\ calls' = <<GetSecretCall(ProbeKey)>>
    /\ pc' = "done"
    /\ UNCHANGED <<secrets, listing, countIsTotal, config, find>>

Close ==
    /\ pc = "idle"
    /\ ret' = [op |-> "Close", err |-> NilErr]
    /\ calls' = <<>>
    /\ pc' = "done"
    /\ UNCHANGED <<secrets, listing, countIsTotal, config, find>>

\* GetAllSecrets up to the loop: the arguments are checked and the pattern
\* compiled; the call returns here when one of them is refused.
GetAllSecrets ==
    /\ pc = "idle"
    /\ \E ref \in FindRefs :
          /\ calls' = <<>>
          /\ IF FindCheck(ref) # NilErr
             THEN /\ ret' = [op |-> "GetAllSecrets", ref |-> ref, results |-> <<>>,
                             err |-> FindCheck(ref)]
                  /\ pc' = "done"
                  /\ find' = NoFind
             ELSE /\ ret' = [op |-> "GetAllSecrets", ref |-> ref]
                  /\ pc' = "paging"
                  /\ find' = [searchString |-> SearchString(ref), offset |-> 0,
                              results |-> <<>>, touched |-> {}]
    /\ UNCHANGED <<secrets, listing, countIsTotal, config>>

\* One iteration of the loop of GetAllSecrets: a page is fetched and its
\* matching secrets are fetched; the call returns, or goes on to the next
\* offset.
GetAllSecretsPage ==
    /\ pc = "paging"
    /\ find.offset < MaxFetches * limit
    /\ \E failAt \in 0..MaxFailAt, failure \in Failures \ {NilErr} :
          LET it == Iteration(Compile(find.searchString), find.offset, find.results,
                              failAt, failure)
          IN  /\ calls' = calls \o it.calls
              /\ IF it.more
                 THEN /\ find' = [find EXCEPT !.offset = find.offset + limit,
                                              !.results = it.results]
                      /\ UNCHANGED <<pc, ret>>
                 ELSE /\ find' = [find EXCEPT !.results = it.results]
                      /\ ret' = [op |-> "GetAllSecrets", ref |-> ret.ref,
                                 results |-> it.results, err |-> it.err]
                      /\ pc' = "done"
    /\ UNCHANGED <<secrets, listing, countIsTotal, config>>

\* The caller takes the result; the client is ready for the next call.
Return ==
    /\ pc = "done"
    /\ pc' = "idle"
    /\ ret' = NoRet
    /\ calls' = <<>>
    /\ find' = NoFind
    /\ UNCHANGED <<secrets, listing, countIsTotal, config>>

Next ==
    \/ GetSecret
    \/ GetSecretMap
    \/ PushSecret
    \/ DeleteSecret
    \/ SecretExists
    \/ Validate
    \/ Close
    \/ GetAllSecrets
    \/ GetAllSecretsPage
    \/ Return

Spec == Init /\ [][Next]_vars

(***************************************************************************)
(* Calls that run beside a GetAllSecrets call.  The client keeps no state  *)
(* of its own between vault calls, so a call running beside another shows  *)
(* only in the vault: here a create or a delete request, of another call   *)
(* on this client or of another client, reaches the vault between two      *)
(* iterations of the running GetAllSecrets call.  At most MaxConcurrent    *)
(* names change during one GetAllSecrets call.                             *)
(***************************************************************************)
MaxConcurrent == 1

ConcurrentPush ==
    /\ pc = "paging"
    /\ Cardinality(find.touched) < MaxConcurrent
    /\ \E remoteKey \in RemoteKeys, secretName \in SecretNames,
          secretKey \in SecretKeys, data \in SourceData :
          LET name == PushName(remoteKey, secretName)
              request == SecretRequest(name, secretKey, Lookup(data, secretKey))
          IN  /\ name # <<>>
              /\ name \notin find.touched
              /\ secrets' = (name :> [Data |-> Data(StoredDocument(request))]) @@ secrets
              /\ listing' = IF name \in DOMAIN secrets THEN listing
                            ELSE Append(listing, name)
              /\ find' = [find EXCEPT !.touched = @ \cup {name}]
    /\ UNCHANGED <<countIsTotal, config, pc, calls, ret>>

ConcurrentDelete ==
    /\ pc = "paging"
    /\ Cardinality(find.touched) < MaxConcurrent
    /\ \E remoteKey \in DeleteKeys :
          /\ remoteKey \in DOMAIN secrets
          /\ remoteKey \notin find.touched
          /\ secrets' = [n \in DOMAIN secrets \ {remoteKey} |-> secrets[n]]
          /\ listing' = SelectSeq(listing, LAMBDA n : n # remoteKey)
          /\ find' = [find EXCEPT !.touched = @ \cup {remoteKey}]
    /\ UNCHANGED <<countIsTotal, config, pc, calls, ret>>

NextConcurrent ==
    \/ Next
    \/ ConcurrentPush
    \/ ConcurrentDelete

SpecConcurrent == Init /\ [][NextConcurrent]_vars

(***************************************************************************)
(* decode on its own: a call of decode with a value over a small alphabet  *)
(* (letters of both base64 alphabets, one character only the standard      *)
(* alphabet has, one only the URL alphabet has, the padding, and a         *)
(* character of neither) and one of the strategies, on a client whose      *)
(* vault is empty.                                                         *)
(***************************************************************************)
MaxDecodeLen == 4

DecodeChars == {"a", "G", "k", "=", "/", "-", "!"}
DecodeInputs == UNION {[1..n -> DecodeChars] : n \in 0..MaxDecodeLen}
DecodeStrategies == {DecodeAuto, DecodeBase64, DecodeBase64URL}

InitDecode ==
    /\ secrets = <<>>
    /\ listing = <<>>
    /\ countIsTotal = FALSE
    /\ config \in Configs
    /\ pc = "idle"
    /\ find = NoFind
    /\ calls = <<>>
    /\ \E value \in DecodeInputs, strategy \in DecodeStrategies :
          ret = [op |-> "decode", value |-> value, strategy |-> strategy]

Decode ==
    /\ pc = "idle"
    /\ ret.op = "decode"
    /\ LET decoded == decode(ret.value, ret.strategy)
       IN  ret' = [op |-> "decode", value |-> ret.value, strategy |-> ret.strategy,
                   val |-> decoded.val, err |-> decoded.err]
    /\ pc' = "done"
    /\ UNCHANGED <<secrets, listing, countIsTotal, config, find, calls>>

NextDecode == Decode

SpecDecode == InitDecode /\ [][NextDecode]_vars

(***************************************************************************)
(* The properties checked.  What a property expects is written out here on *)
(* its own (Matching, Coerce), apart from the definitions that model the   *)
(* code.                                                                   *)
(***************************************************************************)
Returned(op) == pc = "done" /\ ret.op = op

\* Whether a name matches a pattern of the kind the model uses: a literal
\* found anywhere in the name, or at its start when the pattern begins with ^.
Matching(expr, name) ==
    IF expr = <<>> THEN TRUE
    ELSE IF expr[1] = "^" THEN HasPrefix(name, Tail(expr))
    ELSE Contains(name, expr)

\* The value coercion the specification describes: a string unquoted, a
\* boolean as true or false, a number as decimal text, null, an object or an
\* array as JSON.
Coerce(v) ==
    IF v.t = "string" THEN v.s
    ELSE IF v.t = "bool" THEN (IF v.b THEN <<"t", "r", "u", "e">> ELSE <<"f", "a", "l", "s", "e">>)
    ELSE IF v.t = "number" THEN (IF v.n < 0 THEN <<"-">> \o Digits(-v.n) ELSE Digits(v.n))
    ELSE IF v.t = "null" THEN <<"n", "u", "l", "l">>
    ELSE Marshal(v)

\* The page fetches among the vault calls of the current operation.
PageFetches == SelectSeq(calls, LAMBDA c : c.op = "GetSecrets")

C2_NoPartialResults ==
    (Returned("GetAllSecrets") /\ ret.err # NilErr /\ calls # <<>>) =>
        DOMAIN ret.results = {}

\* C3: Validate returns (ValidationResultReady, nil) exactly when the probe
\* GetSecret fails with a not-found error, and for every other outcome of
\* the probe, its success included, returns ValidationResultError without
\* crashing.
C3_ValidateOutcomes ==
    Returned("Validate") =>
        /\ ~ret.panic
        /\ IF ret.probe.err # NilErr
              /\ Contains(ToLower(ret.probe.err.msg), <<"s", "e", "c", "r", "e", "t", " ", "n", "o", "t", " ", "f", "o", "u", "n", "d">>)
           THEN ret.result = "ValidationResultReady" /\ ret.err = NilErr
           ELSE ret.result = "ValidationResultError"

\* C4: SecretExists returns (true, nil) for every key present in the vault,
\* whatever its document (one without a data payload included), (false, nil)
\* for an absent key, and (false, err) with a non-nil err when the vault call
\* fails for another reason.
C4_ExistsOutcomes ==
    Returned("SecretExists") =>
        IF ret.failure # NilErr THEN ret.exists = FALSE /\ ret.err # NilErr
        ELSE IF ret.remoteKey \in DOMAIN secrets THEN ret.exists = TRUE /\ ret.err = NilErr
        ELSE ret.exists = FALSE /\ ret.err = NilErr

\* C5: DeleteSecret returns no error when the vault's delete succeeds or
\* fails with a not-found error, and the vault's error unchanged otherwise;
\* so it succeeds whenever the vault reports only success or not-found,
\* whether or not the secret was there.
C5_DeleteOutcomes ==
    Returned("DeleteSecret") =>
        /\ IF ret.vaultErr = NilErr
              \/ Contains(ToLower(ret.vaultErr.msg), <<"s", "e", "c", "r", "e", "t", " ", "n", "o", "t", " ", "f", "o", "u", "n", "d">>)
           THEN ret.err = NilErr
           ELSE ret.err = ret.vaultErr
        /\ (ret.vaultErr \in {NilErr, VaultNotFound} => ret.err = NilErr)

\* DeleteSecret has returned success for a name the vault did not hold.
C5_Witness ==
    /\ Returned("DeleteSecret")
    /\ ~ret.present
    /\ ret.vaultErr = VaultNotFound
    /\ ret.err = NilErr

\* C6: GetSecret with a property that selects a present non-null field
\* returns that field coerced and then decoded by the decoding strategy (and
\* fails when the decoding fails or the strategy is unsupported); with an
\* empty property it returns the whole document as JSON, not decoded.
C6_GetSecretDecodes ==
    (/\ Returned("GetSecret")
     /\ ret.failure = NilErr
     /\ ret.ref.Key \in DOMAIN secrets
     /\ ~secrets[ret.ref.Key].Data.isNil) =>
        LET m == secrets[ret.ref.Key].Data.m
            expected == decode(Coerce(m[ret.ref.Property]), ret.ref.DecodingStrategy)
        IN  IF ret.ref.Property = <<>>
            THEN ret.err = NilErr /\ ret.val = Marshal(JObj(m))
            ELSE (ret.ref.Property \in DOMAIN m /\ m[ret.ref.Property].t # "null") =>
                    IF expected.err # NilErr THEN ret.err # NilErr
                    ELSE ret.err = NilErr /\ ret.val = expected.val

\* C7: with no decoding strategy GetSecret is a total function of the
\* document and the selector: no data payload gives ErrSecretDataMissing; an
\* empty selector gives the whole document as JSON (an empty document gives
\* {}); a selector naming an absent or null field gives ErrPropertyNotFound;
\* any other selector gives the coerced bytes of the field.
C7_GetSecretOutcomes ==
    (/\ Returned("GetSecret")
     /\ ret.failure = NilErr
     /\ ret.ref.DecodingStrategy = <<>>
     /\ ret.ref.Key \in DOMAIN secrets) =>
        LET data == secrets[ret.ref.Key].Data
            property == ret.ref.Property
        IN  IF data.isNil THEN ret.err.sentinel = "ErrSecretDataMissing"
            ELSE IF property = <<>>
            THEN /\ ret.err = NilErr
                 /\ ret.val = Marshal(JObj(data.m))
                 /\ (DOMAIN data.m = {} => ret.val = <<"{", "}">>)
            ELSE IF property \notin DOMAIN data.m \/ data.m[property].t = "null"
            THEN ret.err.sentinel = "ErrPropertyNotFound"
            ELSE ret.err = NilErr /\ ret.val = Coerce(data.m[property])

\* GetSecret has returned a string field, unquoted.
C7_Witness ==
    /\ Returned("GetSecret")
    /\ ret.ref.DecodingStrategy = <<>>
    /\ ret.ref.Property = <<"s">>
    /\ ret.err = NilErr
    /\ ret.val = <<"a", "G", "k", "=">>

\* C8: GetSecretMap is a total function of the document and the selector: no
\* data payload gives ErrSecretDataMissing; an empty selector gives one entry
\* per top-level field, coerced; a selector naming an absent or null field
\* gives ErrPropertyNotFound; a selector naming an object gives one entry per
\* field of that object, one level deep (a nested object or array appears as
\* JSON); a selector naming anything else gives one entry under the
\* selector's name.  No value is decoded, whatever the decoding strategy.
C8_GetSecretMapOutcomes ==
    (/\ Returned("GetSecretMap")
     /\ ret.failure = NilErr
     /\ ret.ref.Key \in DOMAIN secrets) =>
        LET data == secrets[ret.ref.Key].Data
            property == ret.ref.Property
        IN  IF data.isNil THEN ret.err.sentinel = "ErrSecretDataMissing"
            ELSE IF property = <<>>
            THEN /\ ret.err = NilErr
                 /\ DOMAIN ret.out = DOMAIN data.m
                 /\ \A k \in DOMAIN data.m : ret.out[k] = Coerce(data.m[k])
            ELSE IF property \notin DOMAIN data.m \/ data.m[property].t = "null"
            THEN ret.err.sentinel = "ErrPropertyNotFound"
            ELSE IF data.m[property].t = "object"
            THEN /\ ret.err = NilErr
                 /\ DOMAIN ret.out = DOMAIN data.m[property].m
                 /\ \A k \in DOMAIN ret.out : ret.out[k] = Coerce(data.m[property].m[k])
            ELSE /\ ret.err = NilErr
                 /\ DOMAIN ret.out = {property}
                 /\ ret.out[property] = Coerce(data.m[property])

\* GetSecretMap has returned the fields of an object that holds an object,
\* with the Base64 strategy asked for: the inner object is one entry, JSON.
C8_Witness ==
    /\ Returned("GetSecretMap")
    /\ ret.ref.Property = <<"b">>
    /\ ret.ref.DecodingStrategy = DecodeBase64
    /\ ret.err = NilErr
    /\ <<"d">> \in DOMAIN ret.out
    /\ ret.out[<<"d">>] = <<"{", "\"", "e", "\"", ":", "t", "r", "u", "e", "}">>

\* C9: GetAllSecrets checks its arguments before it touches the vault: a
\* path filter, a tags filter, a conversion strategy other than the default
\* (in that order) give a not-implemented error naming ref.Path, ref.Tags or
\* ref.ConversionStrategy, a pattern that does not compile gives an error
\* naming the pattern, and no vault call has been made.
C9_ArgumentsFirst ==
    Returned("GetAllSecrets") =>
        LET named(param) == /\ ret.err.sentinel = "ErrNotImplemented"
                            /\ Contains(ret.err.msg, <<"\"">> \o param \o <<"\"">>)
                            /\ calls = <<>>
        IN  IF ret.ref.Path THEN named(<<"r", "e", "f", ".", "P", "a", "t", "h">>)
            ELSE IF ret.ref.Tags THEN named(<<"r", "e", "f", ".", "T", "a", "g", "s">>)
            ELSE IF ret.ref.ConversionStrategy # <<"D", "e", "f", "a", "u", "l", "t">>
            THEN named(<<"r", "e", "f", ".", "C", "o", "n", "v", "e", "r", "s", "i", "o", "n", "S", "t", "r", "a", "t", "e", "g", "y">>)
            ELSE (~ret.ref.Name.isNil /\ ret.ref.Name.RegExp = <<"(">>) =>
                    /\ ret.err # NilErr
                    /\ ret.err.sentinel # "ErrNotImplemented"
                    /\ Contains(ret.err.msg, <<"\"", "(", "\"">>)
                    /\ calls = <<>>

\* GetAllSecrets has refused a tags filter, on a vault that holds secrets,
\* without a vault call.
C9_Witness ==
    /\ Returned("GetAllSecrets")
    /\ ret.ref.Tags /\ ~ret.ref.Path
    /\ ret.err.sentinel = "ErrNotImplemented"
    /\ calls = <<>>
    /\ Len(listing) > limit

\* C10: the page fetches of a GetAllSecrets call have limit 100 and the
\* offsets 0, 100, 200, ... in order, the first page of fewer than 100
\* entries is the last one fetched, and a call that returns without error on
\* a namespace of N entries has made N / 100 + 1 page fetches.
C10_PageFetches ==
    /\ \A i \in 1..Len(PageFetches) :
          /\ PageFetches[i].limit = 100
          /\ PageFetches[i].offset = 100 * (i - 1)
          /\ (i < Len(PageFetches) => PageFetches[i].n = 100)
    /\ (Returned("GetAllSecrets") /\ ret.err = NilErr /\ calls # <<>>) =>
          Len(PageFetches) = (Len(listing) \div 100) + 1

\* The create requests among the vault calls of the current operation.
CreateRequests == SelectSeq(calls, LAMBDA c : c.op = "CreateSecret")

\* C11: PushSecret writes to the remote key when that is not empty and to
\* the source secret's own name otherwise; when both are empty it returns
\* ErrNoName and sends no create request to the vault.
C11_PushName ==
    Returned("PushSecret") =>
        IF ret.args.remoteKey # <<>>
        THEN Len(CreateRequests) = 1 /\ CreateRequests[1].request.Name = ret.args.remoteKey
        ELSE IF ret.args.secretName # <<>>
        THEN Len(CreateRequests) = 1 /\ CreateRequests[1].request.Name = ret.args.secretName
        ELSE ret.err = ErrNoName /\ calls = <<>>

\* A push with neither name has been refused without a request.
C11_Witness ==
    /\ Returned("PushSecret")
    /\ ret.args.remoteKey = <<>>
    /\ ret.args.secretName = <<>>
    /\ ret.err = ErrNoName
    /\ calls = <<>>

\* C12: a PushSecret call whose name is not empty sends exactly one create
\* request; the request's document has the secret key as its only field,
\* holding the source secret's value for that key; its read roles and write
\* roles are the client's default read and write role IDs, as many and in
\* the same order, each with an empty display name; and the call returns
\* exactly what the request returned.
C12_OneCreateRequest ==
    (Returned("PushSecret") /\ (ret.args.remoteKey # <<>> \/ ret.args.secretName # <<>>)) =>
        /\ Len(calls) = 1
        /\ calls[1].op = "CreateSecret"
        /\ LET request == calls[1].request
               value == request.Data[ret.args.secretKey]
           IN  /\ DOMAIN request.Data = {ret.args.secretKey}
               /\ IF ret.args.secretKey \in DOMAIN ret.args.data
                  THEN ~value.isNil /\ value.b = ret.args.data[ret.args.secretKey]
                  ELSE value.isNil
               /\ Len(request.ReadRoles) = Len(config.defaultReadRoles)
               /\ \A i \in 1..Len(request.ReadRoles) :
                     /\ request.ReadRoles[i].ID = config.defaultReadRoles[i]
                     /\ request.ReadRoles[i].Name = <<>>
               /\ Len(request.WriteRoles) = Len(config.defaultWriteRoles)
               /\ \A i \in 1..Len(request.WriteRoles) :
                     /\ request.WriteRoles[i].ID = config.defaultWriteRoles[i]
                     /\ request.WriteRoles[i].Name = <<>>
        /\ ret.err = ret.failure

\* A push has sent its request with two read roles and one write role, and
\* has returned the error of the vault.
C12_Witness ==
    /\ Returned("PushSecret")
    /\ Len(calls) = 1
    /\ Len(calls[1].request.ReadRoles) = 2
    /\ Len(calls[1].request.WriteRoles) = 1
    /\ ret.args.secretKey \in DOMAIN ret.args.data
    /\ ret.err = VaultUnreachable

\* The names PushSecret can write to.
PushedNames == {PushName(remoteKey, secretName) :
                   remoteKey \in RemoteKeys, secretName \in SecretNames} \ {<<>>}

C14_DecodeAuto ==
    (Returned("decode") /\ ret.strategy = DecodeAuto) =>
        LET std == DecodeString(StdAlphabet, ret.value)
            url == DecodeString(URLAlphabet, ret.value)
        IN  /\ ret.err = NilErr
            /\ std.err = NilErr => ret.val = std.val
            /\ (std.err # NilErr /\ url.err = NilErr) => ret.val = url.val
            /\ (std.err # NilErr /\ url.err # NilErr) => ret.val = ret.value

\* decode with Auto has returned an input that neither alphabet decodes as
\* it was given.
C14_Witness ==
    /\ Returned("decode")
    /\ ret.strategy = DecodeAuto
    /\ ret.value # <<>>
    /\ DecodeString(StdAlphabet, ret.value).err # NilErr
    /\ DecodeString(URLAlphabet, ret.value).err # NilErr
    /\ ret.err = NilErr
    /\ ret.val = ret.value

\* C17: a GetAllSecrets call that returns without error, while other calls
\* create and delete secrets in the vault, has in its result every secret
\* whose name matches the filter and that was in the vault for the whole
\* call (it is in the vault at the end and no other call wrote or deleted
\* it meanwhile).
C17_StableSecretsIncluded ==
    (Returned("GetAllSecrets") /\ ret.err = NilErr) =>
        \A name \in DOMAIN secrets \ find.touched :
            Matching(SearchString(ret.ref), name) => name \in DOMAIN ret.results

\* The operations that only read.
ReadOps == {"GetSecret", "GetSecretMap", "GetAllSecrets", "SecretExists", "Validate", "Close"}

\* C15: in every step, with calls running beside one another on one client,
\* the client's configuration stays as NewClient set it; a step of
\* GetSecret, GetSecretMap, GetAllSecrets, SecretExists, Validate or Close
\* sends no create and no delete request and leaves the vault as it was;
\* and the vault changes only by the create request of a PushSecret call or
\* the delete request of a DeleteSecret call.
C15_ReadsChangeNothing ==
    [][/\ config' = config
       /\ (ret'.op \in ReadOps /\ (ret' # ret \/ calls' # calls)) =>
             /\ secrets' = secrets
             /\ listing' = listing
             /\ \A i \in 1..Len(calls') : calls'[i].op \notin {"CreateSecret", "DeleteSecret"}
       /\ (secrets' # secrets \/ listing' # listing) =>
             \/ /\ pc = "idle"
                /\ ret'.op \in {"PushSecret", "DeleteSecret"}
                /\ Len(calls') = 1
                /\ calls'[1].op \in {"CreateSecret", "DeleteSecret"}
             \/ find'.touched # find.touched]_vars

\* A GetAllSecrets call has returned two pages of secrets after a push or a
\* delete of another call went to the vault while it ran, and the
\* configuration is the one NewClient set.
C15_Witness ==
    /\ Returned("GetAllSecrets")
    /\ ret.err = NilErr
    /\ find.touched # {}
    /\ Len(PageFetches) >= 2
    /\ config \in Configs

\* C16: GetAllSecrets on a finite namespace that no other call changes
\* stops after finitely many page fetches, because it stops on the size of
\* the page just fetched: a call never makes more than N / 100 + 1 fetches
\* on a namespace of N entries, and once a page of fewer than 100 items has
\* been fetched the call has returned.
C16_StopsOnPageSize ==
    /\ Len(PageFetches) <= (Len(listing) \div limit) + 1
    /\ pc = "paging" => \A i \in 1..Len(PageFetches) : PageFetches[i].n = limit

\* C18: once PushSecret has stored the value v under the secret key k at the
\* name n and nothing has written or deleted n since, SecretExists(n)
\* returns (true, nil) and GetSecret(n, property k, no decoding strategy)
\* returns the bytes v as they were pushed.  The probe name is in the vault
\* only after a push to it, and a document there with the field k1 was
\* pushed from a source secret's value for k1.
C18_PushReadRoundTrip ==
    /\ (/\ Returned("SecretExists")
        /\ ret.remoteKey = ProbeKey
        /\ ret.failure = NilErr
        /\ ProbeKey \in DOMAIN secrets) =>
          ret.exists /\ ret.err = NilErr
    /\ (/\ Returned("GetSecret")
        /\ ret.ref.Key = ProbeKey
        /\ ret.ref.Property = <<"k", "1">>
        /\ ret.ref.DecodingStrategy = <<>>
        /\ ret.failure = NilErr
        /\ ProbeKey \in DOMAIN secrets
        /\ <<"k", "1">> \in DOMAIN secrets[ProbeKey].Data.m) =>
          /\ ret.err = NilErr
          /\ \E data \in SourceData : ret.val = data[<<"k", "1">>]

====
